---- MODULE Spec2Model ----
(***************************************************************************)
(* folderSize (src/src/main.rs): an interactive disk-usage explorer.       *)
(*                                                                         *)
(* The model has four parts:                                              *)
(*   - the file system the program reads (fs, fault), fixed during a run;  *)
(*   - main()'s loop: list the current directory, prompt, act on the       *)
(*     choice (Spec);                                                      *)
(*   - get_directory_size() unfolded into its call stack, one step per     *)
(*     loop iteration, call and return (SpecAgg / SpecAggFair);            *)
(*   - the sort_by call of get_entries_info on arbitrary vectors of        *)
(*     EntryInfo (SpecSort).                                               *)
(***************************************************************************)
EXTENDS Integers, Sequences, FiniteSets, TLC

(***************************************************************************)
(* Bounds of the model.                                                    *)
(***************************************************************************)
NumNodes == 5       \* file-system entries besides the start directory
RootFanout == 2     \* how many of them are children of the start directory
MaxFileLen == 2     \* regular files are 1..MaxFileLen bytes long
MaxVisits == 2      \* read_dir calls on one directory the unfolding follows
MaxSortLen == 4     \* longest vector handed to the sort in SpecSort
MaxSize == 2        \* sizes in those vectors are 0..MaxSize

VARIABLES
    fs,             \* node -> [kind, len]: what lstat reports for the entry
    fault,          \* the one I/O fault of this file system, or NoFault
    current_dir,    \* main: current_dir (a path string)
    dir_stack,      \* main: dir_stack
    pc,             \* main: "list" (loop head), "prompt" (in prompt_user), "exited"
    entries_info,   \* main: entries_info of the current iteration
    choice,         \* main: the last choice prompt_user returned, <<>> before the first
    out,            \* the message the last step printed, "" if none
    accessed,       \* the index the last step used on entries_info, or NoIndex
    agg_pc,         \* get_directory_size unfolding: "idle", "run", "done"
    agg_stack,      \* its call stack: frames [path, iter, total_size]
    agg_result,     \* its io::Result once done
    visits,         \* directory -> number of read_dir calls on it
    sort_in,        \* SpecSort: the vector before sort_by
    sort_out,       \* SpecSort: the vector after sort_by
    sort_pc         \* SpecSort: "unsorted" / "sorted"

fsVars == <<fs, fault>>
navVars == <<current_dir, dir_stack, pc, entries_info, choice, out, accessed>>
aggVars == <<agg_pc, agg_stack, agg_result, visits>>
sortVars == <<sort_in, sort_out, sort_pc>>
vars == <<fs, fault, current_dir, dir_stack, pc, entries_info, choice, out, accessed,
          agg_pc, agg_stack, agg_result, visits, sort_in, sort_out, sort_pc>>

(***************************************************************************)
(* io::Result and Option.                                                  *)
(***************************************************************************)
Ok(v) == [ok |-> TRUE, val |-> v]
Err(e) == [ok |-> FALSE, err |-> e]
IoError == "os error"
Unsupported == "Unsupported entry type"
None == -1
unwrap_or(opt, default) == IF opt = None THEN default ELSE opt

(***************************************************************************)
(* The file system.  Node 0 is the start directory (args[1]); nodes        *)
(* 1..RootFanout are its children, the next two nodes are children of      *)
(* node 2 and every later node n is a child of node n - 2.  read_dir       *)
(* returns the children in increasing node order.                          *)
(***************************************************************************)
Nodes == 0..NumNodes
Root == 0
NoPath == -1        \* a path string that names no existing entry
NoIndex == -1
Parent(n) == IF n <= RootFanout THEN Root ELSE IF n <= RootFanout + 2 THEN 2 ELSE n - 2

Absent == [kind |-> "absent", len |-> 0]
Dir == [kind |-> "dir", len |-> MaxFileLen]
Symlink == [kind |-> "symlink", len |-> MaxFileLen]
File(l) == [kind |-> "file", len |-> l]
Attrs == {Absent, Dir, Symlink} \cup {File(l) : l \in 1..MaxFileLen}

NoFault == <<"none", Root>>
Faults == {NoFault} \cup ({"read_dir", "metadata", "non_utf8"} \X Nodes)

\* The file systems considered: a tree (an entry exists only inside a
\* directory) with at most one fault, placed where the program can meet it.
FsInit ==
    /\ fs \in [Nodes -> Attrs]
    /\ fs[Root] = Dir
    /\ \A n \in Nodes \ {Root} : fs[Parent(n)].kind # "dir" => fs[n] = Absent
    /\ fault \in Faults
    /\ fault[1] = "read_dir" => fs[fault[2]].kind = "dir"
    /\ fault[1] = "metadata" => fault[2] # Root /\ fs[fault[2]].kind # "absent"
    /\ fault[1] = "non_utf8" => fault[2] # Root /\ fs[fault[2]].kind = "dir"

\* A symbolic link points back to the start directory, an ancestor of
\* every entry.  Opening a path follows links.
Resolve(p) == IF p # NoPath /\ fs[p].kind = "symlink" THEN Root ELSE p

RECURSIVE ChildrenFrom(_, _)
ChildrenFrom(d, n) ==
    IF n > NumNodes THEN <<>>
    ELSE IF Parent(n) = d /\ fs[n].kind # "absent"
         THEN <<n>> \o ChildrenFrom(d, n + 1)
         ELSE ChildrenFrom(d, n + 1)

\* fs::read_dir(path): the entries of the directory the path leads to.
read_dir(path) ==
    LET d == Resolve(path) IN
    IF d = NoPath \/ fs[d].kind # "dir" \/ fault = <<"read_dir", d>>
    THEN Err(IoError)
    ELSE Ok(ChildrenFrom(d, 1))

\* Variant: metadata that follows symbolic links (fs::metadata on the path).
metadata_following_links(entry) ==
    IF fault = <<"metadata", entry>>
    THEN Err(IoError)
    ELSE Ok([is_file |-> fs[Resolve(entry)].kind = "file",
             is_dir |-> fs[Resolve(entry)].kind = "dir",
             len |-> fs[Resolve(entry)].len])

\* DirEntry::metadata(): the entry's own metadata, links not followed.
metadata(entry) ==
    IF fault = <<"metadata", entry>>
    THEN Err(IoError)
    ELSE Ok([is_file |-> fs[entry].kind = "file",
             is_dir |-> fs[entry].kind = "dir",
             len |-> fs[entry].len])

\* DirEntry::path()
entry_path(entry) == entry

\* path.to_string_lossy().to_string(): a name that is not valid UTF-8 loses
\* bytes, and the resulting string no longer names the entry.
to_string_lossy(p) == IF fault = <<"non_utf8", p>> THEN NoPath ELSE p

(***************************************************************************)
(* get_directory_size, as the recursive function it is.                    *)
(***************************************************************************)
RECURSIVE get_directory_size(_)
RECURSIVE size_loop(_, _)
size_loop(iter, total_size) ==
    IF iter = <<>> THEN Ok(total_size)
    ELSE LET entry == Head(iter)
             md == metadata(entry)
         IN  IF ~md.ok THEN Err(md.err)
             ELSE IF md.val.is_file
                  THEN size_loop(Tail(iter), total_size + md.val.len)
             ELSE IF md.val.is_dir
                  THEN LET sub == get_directory_size(entry_path(entry))
                       IN  IF ~sub.ok THEN Err(sub.err)
                           ELSE size_loop(Tail(iter), total_size + sub.val)
             ELSE size_loop(Tail(iter), total_size)

\* Variant: a directory that cannot be listed counts as empty.
get_directory_size_lenient(path) ==
    LET rd == read_dir(path)
    IN  IF ~rd.ok THEN Ok(0) ELSE size_loop(rd.val, 0)

get_directory_size(path) ==
    LET rd == read_dir(path)
    IN  IF ~rd.ok THEN Err(rd.err) ELSE size_loop(rd.val, 0)

(***************************************************************************)
(* get_entry_info                                                          *)
(***************************************************************************)
\* Variant: an entry of another type is listed without a size.
get_entry_info_lenient(entry) ==
    LET path == entry_path(entry)
        md == metadata(entry)
    IN  IF ~md.ok THEN Err(md.err)
        ELSE LET entry_type == IF md.val.is_dir THEN "Directory" ELSE "File"
                 size == IF md.val.is_file THEN Ok(md.val.len)
                         ELSE IF md.val.is_dir THEN get_directory_size(path)
                         ELSE Ok(None)
             IN  IF ~size.ok THEN Err(size.err)
                 ELSE Ok([entry_type |-> entry_type,
                          path |-> to_string_lossy(path),
                          size |-> size.val])

get_entry_info(entry) ==
    LET path == entry_path(entry)
        md == metadata(entry)
    IN  IF ~md.ok THEN Err(md.err)
        ELSE IF ~md.val.is_file /\ ~md.val.is_dir THEN Err(Unsupported)
        ELSE LET entry_type == IF md.val.is_file THEN "File" ELSE "Directory"
                 size == IF entry_type = "File" THEN Ok(md.val.len)
                         ELSE get_directory_size(path)
             IN  IF ~size.ok THEN Err(size.err)
                 ELSE Ok([entry_type |-> entry_type,
                          path |-> to_string_lossy(path),
                          size |-> size.val])

(***************************************************************************)
(* The sort of get_entries_info.  slice::sort_by is a stable sort that     *)
(* asks the comparator only whether it returns Less; up to 20 elements it  *)
(* is an insertion sort.                                                   *)
(***************************************************************************)
\* #[derive(PartialOrd, Ord)] on enum EntryType { File, Directory }
EntryTypeRank(t) == IF t = "File" THEN 0 ELSE 1
Cmp(x, y) == IF x < y THEN "Less" ELSE IF x = y THEN "Equal" ELSE "Greater"

\* Variant: sizes compared in ascending order.
compare_ascending(a, b) ==
    IF a.entry_type = b.entry_type
    THEN Cmp(unwrap_or(a.size, 0), unwrap_or(b.size, 0))
    ELSE Cmp(EntryTypeRank(a.entry_type), EntryTypeRank("Directory"))

\* the closure given to sort_by
compare(a, b) ==
    IF a.entry_type = b.entry_type
    THEN Cmp(unwrap_or(b.size, 0), unwrap_or(a.size, 0))
    ELSE Cmp(EntryTypeRank(a.entry_type), EntryTypeRank("Directory"))

is_less(a, b) == compare(a, b) = "Less"

Front(s) == SubSeq(s, 1, Len(s) - 1)
Last(s) == s[Len(s)]

RECURSIVE insert_tail(_, _)
insert_tail(sorted, x) ==
    IF sorted = <<>> \/ ~is_less(x, Last(sorted))
    THEN Append(sorted, x)
    ELSE Append(insert_tail(Front(sorted), x), Last(sorted))

RECURSIVE sort_by(_)
sort_by(v) ==
    IF v = <<>> THEN <<>>
    ELSE insert_tail(sort_by(Front(v)), Last(v))

(***************************************************************************)
(* get_entries_info                                                        *)
(***************************************************************************)
RECURSIVE collect(_, _)
collect(iter, entries) ==
    IF iter = <<>> THEN Ok(entries)
    ELSE LET info == get_entry_info(Head(iter))
         IN  IF ~info.ok THEN Err(info.err)
             ELSE collect(Tail(iter), Append(entries, info.val))

get_entries_info(dir_path) ==
    LET rd == read_dir(dir_path)
    IN  IF ~rd.ok THEN Err(rd.err)
        ELSE LET got == collect(rd.val, <<>>)
             IN  IF ~got.ok THEN Err(got.err)
                 ELSE Ok(sort_by(got.val))

(***************************************************************************)
(* main(): the interactive loop.                                           *)
(***************************************************************************)
Choices == -2..(RootFanout + 1)
InvalidMessage == "Invalid choice. Please enter a valid number."

NavInit ==
    /\ current_dir = Root
    /\ dir_stack = <<current_dir>>
    /\ pc = "list"
    /\ entries_info = <<>>
    /\ choice = <<>>
    /\ out = ""
    /\ accessed = NoIndex

AggIdle ==
    /\ agg_pc = "idle"
    /\ agg_stack = <<>>
    /\ agg_result = Err("")
    /\ visits = [n \in Nodes |-> 0]

SortIdle ==
    /\ sort_in = <<>>
    /\ sort_out = <<>>
    /\ sort_pc = "sorted"

Init == FsInit /\ NavInit /\ AggIdle /\ SortIdle

\* Loop head up to the prompt: clear the screen, list and display.
List ==
    /\ pc = "list"
    /\ LET res == get_entries_info(current_dir)
       IN  IF res.ok
           THEN /\ entries_info' = res.val
                /\ out' = ""
                /\ pc' = "prompt"
           ELSE /\ entries_info' = <<>>
                /\ out' = "Error: " \o res.err
                /\ pc' = "exited"
    /\ accessed' = NoIndex
    /\ UNCHANGED <<current_dir, dir_stack, choice, fsVars, aggVars, sortVars>>

\* Variant: the popped directory is dropped, current_dir stays.
Ascend_keeps_current ==
    /\ pc = "prompt"
    /\ choice' = <<-1>>
    /\ IF dir_stack # <<>>
       THEN dir_stack' = Front(dir_stack)
       ELSE UNCHANGED dir_stack
    /\ pc' = "list"
    /\ entries_info' = <<>>
    /\ out' = ""
    /\ accessed' = NoIndex
    /\ UNCHANGED <<current_dir, fsVars, aggVars, sortVars>>

\* Variant: going back with an empty stack is reported as an invalid choice.
Ascend_reports_empty ==
    /\ pc = "prompt"
    /\ choice' = <<-1>>
    /\ IF dir_stack # <<>>
       THEN /\ current_dir' = Last(dir_stack)
            /\ dir_stack' = Front(dir_stack)
            /\ out' = ""
       ELSE /\ UNCHANGED <<current_dir, dir_stack>>
            /\ out' = "Invalid choice. Please enter a valid number."
    /\ pc' = "list"
    /\ entries_info' = <<>>
    /\ accessed' = NoIndex
    /\ UNCHANGED <<fsVars, aggVars, sortVars>>

\* choice -1
Ascend ==
    /\ pc = "prompt"
    /\ choice' = <<-1>>
    /\ IF dir_stack # <<>>
       THEN /\ current_dir' = Last(dir_stack)
            /\ dir_stack' = Front(dir_stack)
       ELSE UNCHANGED <<current_dir, dir_stack>>
    /\ pc' = "list"
    /\ entries_info' = <<>>
    /\ out' = ""
    /\ accessed' = NoIndex
    /\ UNCHANGED <<fsVars, aggVars, sortVars>>

\* choice 0
Quit ==
    /\ pc = "prompt"
    /\ choice' = <<0>>
    /\ pc' = "exited"
    /\ out' = "Exiting the program."
    /\ entries_info' = <<>>
    /\ accessed' = NoIndex
    /\ UNCHANGED <<current_dir, dir_stack, fsVars, aggVars, sortVars>>

\* Variant: the range is one too long.
InRange_one_more(index, n) == 1 <= index /\ index <= n + 1

\* the guard of the third match arm
InRange(index, n) == 1 <= index /\ index <= n

\* Variant: the selected path is pushed and current_dir stays.
Select_pushes_selected(index) ==
    /\ pc = "prompt"
    /\ index # -1 /\ index # 0
    /\ InRange(index, Len(entries_info))
    /\ choice' = <<index>>
    /\ accessed' = index - 1
    /\ LET selected_entry == entries_info[(index - 1) + 1]
       IN  IF selected_entry.entry_type = "Directory"
           THEN /\ dir_stack' = Append(dir_stack, selected_entry.path)
                /\ UNCHANGED current_dir
           ELSE UNCHANGED <<current_dir, dir_stack>>
    /\ pc' = "list"
    /\ out' = ""
    /\ entries_info' = <<>>
    /\ UNCHANGED <<fsVars, aggVars, sortVars>>

\* choice in 1..=entries_info.len()
Select(index) ==
    /\ pc = "prompt"
    /\ index # -1 /\ index # 0
    /\ InRange(index, Len(entries_info))
    /\ choice' = <<index>>
    /\ accessed' = index - 1
    /\ IF index - 1 \in 0..(Len(entries_info) - 1)
       THEN LET selected_entry == entries_info[(index - 1) + 1]
            IN  /\ IF selected_entry.entry_type = "Directory"
                   THEN /\ dir_stack' = Append(dir_stack, current_dir)
                        /\ current_dir' = selected_entry.path
                   ELSE UNCHANGED <<current_dir, dir_stack>>
                /\ pc' = "list"
                /\ out' = ""
       ELSE /\ pc' = "exited"       \* index out of bounds: panic
            /\ out' = "panicked"
            /\ UNCHANGED <<current_dir, dir_stack>>
    /\ entries_info' = <<>>
    /\ UNCHANGED <<fsVars, aggVars, sortVars>>

\* any other choice
Invalid(c) ==
    /\ pc = "prompt"
    /\ c # -1 /\ c # 0
    /\ ~InRange(c, Len(entries_info))
    /\ choice' = <<c>>
    /\ out' = InvalidMessage
    /\ pc' = "list"
    /\ entries_info' = <<>>
    /\ accessed' = NoIndex
    /\ UNCHANGED <<current_dir, dir_stack, fsVars, aggVars, sortVars>>

Next ==
    \/ List
    \/ Ascend
    \/ Quit
    \/ \E index \in Choices : Select(index)
    \/ \E c \in Choices : Invalid(c)

Spec == Init /\ [][Next]_vars

(***************************************************************************)
(* get_directory_size unfolded: one frame per active call, one step per    *)
(* read_dir, per loop iteration and per return.  A `?` that fails unwinds  *)
(* every frame at once, since no caller handles the error.                 *)
(***************************************************************************)
Frame(path, iter) == [path |-> path, iter |-> iter, total_size |-> 0]
Top == agg_stack[Len(agg_stack)]
ReplaceTop(frame) == [agg_stack EXCEPT ![Len(agg_stack)] = frame]

InitAgg == FsInit /\ NavInit /\ AggIdle /\ SortIdle

\* The call get_directory_size(path): `fs::read_dir(path)?` and a new frame.
Enter(stack, path) ==
    LET rd == read_dir(path) IN
    /\ visits[Resolve(path)] < MaxVisits
    /\ visits' = [visits EXCEPT ![Resolve(path)] = @ + 1]
    /\ IF rd.ok
       THEN /\ agg_stack' = Append(stack, Frame(path, rd.val))
            /\ agg_pc' = "run"
            /\ UNCHANGED agg_result
       ELSE /\ agg_stack' = <<>>
            /\ agg_pc' = "done"
            /\ agg_result' = Err(rd.err)

\* the outermost call, on the start directory
AggStart ==
    /\ agg_pc = "idle"
    /\ Enter(<<>>, Root)
    /\ UNCHANGED <<fsVars, navVars, sortVars>>

\* `entry.metadata()?` fails
AggMetadataFails ==
    /\ agg_pc = "run"
    /\ Top.iter # <<>>
    /\ ~metadata(Head(Top.iter)).ok
    /\ agg_stack' = <<>>
    /\ agg_pc' = "done"
    /\ agg_result' = Err(metadata(Head(Top.iter)).err)
    /\ UNCHANGED <<visits, fsVars, navVars, sortVars>>

\* metadata.is_file(): total_size += metadata.len()
AggFile ==
    /\ agg_pc = "run"
    /\ Top.iter # <<>>
    /\ LET md == metadata(Head(Top.iter)) IN
       /\ md.ok
       /\ md.val.is_file
       /\ agg_stack' = ReplaceTop([Top EXCEPT !.iter = Tail(@),
                                              !.total_size = @ + md.val.len])
    /\ UNCHANGED <<agg_pc, agg_result, visits, fsVars, navVars, sortVars>>

\* metadata.is_dir(): the recursive call get_directory_size(&entry.path())
AggRecurse ==
    /\ agg_pc = "run"
    /\ Top.iter # <<>>
    /\ LET md == metadata(Head(Top.iter)) IN
       /\ md.ok
       /\ ~md.val.is_file
       /\ md.val.is_dir
       /\ Enter(agg_stack, entry_path(Head(Top.iter)))
    /\ UNCHANGED <<fsVars, navVars, sortVars>>

\* neither a file nor a directory: the loop goes on to the next entry
AggSkip ==
    /\ agg_pc = "run"
    /\ Top.iter # <<>>
    /\ LET md == metadata(Head(Top.iter)) IN
       /\ md.ok
       /\ ~md.val.is_file
       /\ ~md.val.is_dir
       /\ agg_stack' = ReplaceTop([Top EXCEPT !.iter = Tail(@)])
    /\ UNCHANGED <<agg_pc, agg_result, visits, fsVars, navVars, sortVars>>

\* Variant: the caller forgets the total of the subdirectory.
AggReturn_drops_total ==
    /\ agg_pc = "run"
    /\ Top.iter = <<>>
    /\ IF Len(agg_stack) = 1
       THEN /\ agg_stack' = <<>>
            /\ agg_pc' = "done"
            /\ agg_result' = Ok(Top.total_size)
       ELSE LET caller == agg_stack[Len(agg_stack) - 1] IN
            /\ agg_stack' = Append(SubSeq(agg_stack, 1, Len(agg_stack) - 2),
                                   [caller EXCEPT !.iter = Tail(@)])
            /\ UNCHANGED <<agg_pc, agg_result>>
    /\ UNCHANGED <<visits, fsVars, navVars, sortVars>>

\* Ok(total_size): the caller adds it to its own total and takes its next
\* entry; the outermost call delivers the result.
AggReturn ==
    /\ agg_pc = "run"
    /\ Top.iter = <<>>
    /\ IF Len(agg_stack) = 1
       THEN /\ agg_stack' = <<>>
            /\ agg_pc' = "done"
            /\ agg_result' = Ok(Top.total_size)
       ELSE LET caller == agg_stack[Len(agg_stack) - 1] IN
            /\ agg_stack' = Append(SubSeq(agg_stack, 1, Len(agg_stack) - 2),
                                   [caller EXCEPT !.iter = Tail(@),
                                                  !.total_size = @ + Top.total_size])
            /\ UNCHANGED <<agg_pc, agg_result>>
    /\ UNCHANGED <<visits, fsVars, navVars, sortVars>>

NextAgg ==
    \/ AggStart
    \/ AggMetadataFails
    \/ AggFile
    \/ AggRecurse
    \/ AggSkip
    \/ AggReturn

SpecAgg == InitAgg /\ [][NextAgg]_vars

\* The program is sequential: a call that can take a step takes it.
SpecAggFair == SpecAgg /\ WF_vars(NextAgg)

(***************************************************************************)
(* The sort alone, on every vector of at most MaxSortLen entries.  The     *)
(* path of an entry is its position in the vector before the sort.         *)
(***************************************************************************)
EntryTypes == {"File", "Directory"}
EntryInfo(t, p, s) == [entry_type |-> t, path |-> p, size |-> s]
Shapes == EntryTypes \X (0..MaxSize)
Vec(shape) == [i \in 1..Len(shape) |-> EntryInfo(shape[i][1], i, shape[i][2])]

InitSort ==
    /\ FsInit /\ fault = NoFault /\ \A n \in Nodes \ {Root} : fs[n] = Absent
    /\ NavInit /\ AggIdle
    /\ \E n \in 0..MaxSortLen : \E shape \in [1..n -> Shapes] : sort_in = Vec(shape)
    /\ sort_out = <<>>
    /\ sort_pc = "unsorted"

\* entries_info.sort_by(...)
Sort ==
    /\ sort_pc = "unsorted"
    /\ sort_out' = sort_by(sort_in)
    /\ sort_pc' = "sorted"
    /\ UNCHANGED <<sort_in, fsVars, navVars, aggVars>>

NextSort == Sort

SpecSort == InitSort /\ [][NextSort]_vars

(***************************************************************************)
(* Reference definitions for the properties, independent of the code       *)
(* above: they read the file system directly.                              *)
(***************************************************************************)
RECURSIVE Under(_, _)
\* n lies strictly below d
Under(n, d) == n # Root /\ (Parent(n) = d \/ Under(Parent(n), d))

RECURSIVE SumLen(_)
SumLen(S) == IF S = {} THEN 0
             ELSE LET n == CHOOSE m \in S : TRUE IN fs[n].len + SumLen(S \ {n})

\* the byte lengths of all regular files below d
RefSum(d) == SumLen({n \in Nodes : fs[n].kind = "file" /\ Under(n, d)})

\* an immediate child of d that is neither a regular file nor a directory
HasUnsupportedChild(d) ==
    \E n \in Nodes \ {Root} : Parent(n) = d /\ fs[n].kind = "symlink"

\* listing d, or aggregating below d, meets the I/O fault
FaultBelow(d) ==
    \/ d = NoPath
    \/ fault[1] = "read_dir" /\ (fault[2] = d \/ Under(fault[2], d))
    \/ fault[1] = "metadata" /\ Under(fault[2], d)

ErrorMessages == {"Error: " \o IoError, "Error: " \o Unsupported}

(***************************************************************************)
(* C1.  In every listing get_entries_info returns, all Directory entries   *)
(* precede all File entries: no File stands before a Directory.            *)
(***************************************************************************)
C1_DirectoriesBeforeFiles ==
    pc = "prompt" =>
        ~ \E i, j \in 1..Len(entries_info) :
            /\ i < j
            /\ entries_info[i].entry_type = "File"
            /\ entries_info[j].entry_type = "Directory"

(***************************************************************************)
(* C2.  When every entry can be read, get_directory_size(D) returns        *)
(* exactly the sum of the lengths of all regular files below D; an empty   *)
(* directory yields 0.                                                     *)
(***************************************************************************)
C2_AggregateIsSumOfFiles ==
    (agg_pc = "done" /\ fault[1] \notin {"read_dir", "metadata"}) =>
        /\ agg_result = Ok(RefSum(Root))
        /\ (ChildrenFrom(Root, 1) = <<>> => agg_result = Ok(0))

\* a finished aggregation that summed a file of the start directory and a
\* file two directories down
C2_Witness ==
    /\ agg_pc = "done"
    /\ fault = NoFault
    /\ agg_result.ok
    /\ \E n, m \in Nodes : /\ fs[n].kind = "file" /\ Parent(n) = Root
                           /\ fs[m].kind = "file" /\ Parent(m) # Root
                           /\ Parent(Parent(m)) # Root
                           /\ agg_result.val >= fs[n].len + fs[m].len

(***************************************************************************)
(* C3.  In the sorted vector, of two entries of the same kind the earlier  *)
(* one has the larger or equal size (a missing size counts as 0).          *)
(***************************************************************************)
C3_SameKindDescending ==
    sort_pc = "sorted" =>
        /\ Len(sort_out) = Len(sort_in)
        /\ \A i, j \in 1..Len(sort_out) :
              (i < j /\ sort_out[i].entry_type = sort_out[j].entry_type)
                  => unwrap_or(sort_out[i].size, 0) >= unwrap_or(sort_out[j].size, 0)

\* a sorted vector of both kinds in which the sort moved a larger entry in
\* front of a smaller one of its kind
C3_Witness ==
    /\ sort_pc = "sorted"
    /\ sort_in # <<>>
    /\ \E i, j \in 1..Len(sort_out) :
          /\ i < j
          /\ sort_out[i].entry_type = sort_out[j].entry_type
          /\ sort_out[i].size > sort_out[j].size
          /\ sort_out[i].path > sort_out[j].path
    /\ \E i, j \in 1..Len(sort_out) : sort_out[i].entry_type # sort_out[j].entry_type

(***************************************************************************)
(* C4.  The session starts in Browsing(start, [start]).  Choosing the      *)
(* index of a Directory descends into it and pushes the start directory;   *)
(* choosing -1 thereafter returns to the start directory.                  *)
(***************************************************************************)
C4_FirstDescent ==
    (pc = "prompt" /\ choice = <<>>) =>
        /\ current_dir = Root
        /\ dir_stack = <<Root>>
        /\ \A i \in 1..Len(entries_info) :
              (choice' = <<i>> /\ entries_info[i].entry_type = "Directory") =>
                  /\ current_dir' = entries_info[i].path
                  /\ dir_stack' = <<Root, Root>>

C4_BackAfterDescent(history) ==
    (/\ pc = "prompt"
     /\ dir_stack = <<Root, Root>>
     /\ current_dir # Root
     /\ choice' = <<-1>>) =>
        /\ current_dir' = Root
        /\ dir_stack' = history

\* as claimed: the history is empty after going back
C4_BackLeavesEmptyHistory ==
    [][C4_FirstDescent /\ C4_BackAfterDescent(<<>>)]_vars

\* as amended: the history then holds the start directory once
C4_BackLeavesStartInHistory ==
    [][C4_FirstDescent /\ C4_BackAfterDescent(<<Root>>)]_vars

\* back in the start directory by a -1 that popped one of two entries
C4_Witness ==
    /\ pc = "list"
    /\ choice = <<-1>>
    /\ current_dir = Root
    /\ dir_stack = <<Root>>

(***************************************************************************)
(* C5.  With history [d] in directory d, choice -1 gives Browsing(d, []);  *)
(* with an empty history, choice -1 changes neither current_dir nor        *)
(* history, reports nothing and stays in Browsing.                         *)
(***************************************************************************)
C5_AscendAtBottom ==
    [][(pc = "prompt" /\ choice' = <<-1>>) =>
          /\ (dir_stack = <<current_dir>> =>
                 /\ current_dir' = current_dir
                 /\ dir_stack' = <<>>
                 /\ pc' = "list")
          /\ (dir_stack = <<>> =>
                 /\ current_dir' = current_dir
                 /\ dir_stack' = dir_stack
                 /\ out' = ""
                 /\ pc' = "list")]_vars

\* a -1 has just been processed and the history is empty
C5_Witness ==
    /\ pc = "list"
    /\ choice = <<-1>>
    /\ dir_stack = <<>>
    /\ out = ""

(***************************************************************************)
(* C6.  For a choice in 1..N with entry = listing[choice-1]: a Directory   *)
(* pushes current_dir onto the history and becomes the current directory;  *)
(* a File changes neither.                                                 *)
(***************************************************************************)
C6_Descend ==
    [][\A index \in 1..Len(entries_info) :
          (pc = "prompt" /\ choice' = <<index>>) =>
              IF entries_info[index].entry_type = "Directory"
              THEN /\ dir_stack' = Append(dir_stack, current_dir)
                   /\ Len(dir_stack') = Len(dir_stack) + 1
                   /\ Last(dir_stack') = current_dir
                   /\ current_dir' = entries_info[index].path
              ELSE /\ current_dir' = current_dir
                   /\ dir_stack' = dir_stack]_vars

\* two descents below the start directory
C6_Witness ==
    /\ pc = "list"
    /\ choice # <<>> /\ choice[1] >= 1
    /\ Len(dir_stack) = 3
    /\ current_dir # NoPath
    /\ dir_stack[3] = Parent(current_dir)

(***************************************************************************)
(* C7.  A choice other than -1, 0 and 1..N is reported as invalid and      *)
(* changes neither current_dir nor history; the session stays in Browsing  *)
(* and the listing is never indexed outside its bounds.                    *)
(***************************************************************************)
C7_InvalidChoice ==
    [][/\ \A c \in Choices :
             (/\ pc = "prompt"
              /\ choice' = <<c>>
              /\ c # -1 /\ c # 0 /\ c \notin 1..Len(entries_info)) =>
                 /\ out' = InvalidMessage
                 /\ pc' = "list"
                 /\ current_dir' = current_dir
                 /\ dir_stack' = dir_stack
                 /\ accessed' = NoIndex
       /\ accessed' = NoIndex \/ accessed' \in 0..(Len(entries_info) - 1)
       /\ out' # "panicked"]_vars

\* an invalid choice against the listing of an empty directory
C7_Witness ==
    /\ pc = "list"
    /\ out = InvalidMessage
    /\ choice = <<1>>
    /\ current_dir # NoPath
    /\ ChildrenFrom(current_dir, 1) = <<>>

(***************************************************************************)
(* C8.  An entry that is neither file nor directory fails the listing      *)
(* with "Unsupported entry type" when it is an immediate child of the      *)
(* listed directory; nested inside a child directory it contributes 0,     *)
(* its siblings are still summed and the listing succeeds.                 *)
(***************************************************************************)
C8_UnsupportedAsymmetry ==
    (pc # "list" /\ current_dir # NoPath) =>
        /\ HasUnsupportedChild(current_dir) =>
              /\ pc = "exited"
              /\ entries_info = <<>>
              /\ out \in ErrorMessages
              /\ (fault = NoFault => out = "Error: " \o Unsupported)
        /\ (fault = NoFault /\ ~HasUnsupportedChild(current_dir)) =>
              /\ out \notin ErrorMessages
              /\ pc = "prompt" =>
                    /\ Len(entries_info) = Len(ChildrenFrom(current_dir, 1))
                    /\ \A i \in 1..Len(entries_info) :
                          entries_info[i].entry_type = "Directory" =>
                              entries_info[i].size = RefSum(entries_info[i].path)

\* a listing that succeeded although a child directory holds an
\* unsupported entry next to a file
C8_Witness ==
    /\ pc = "prompt"
    /\ fault = NoFault
    /\ \E i \in 1..Len(entries_info) :
          /\ entries_info[i].entry_type = "Directory"
          /\ entries_info[i].size > 0
          /\ \E n, m \in Nodes \ {Root} :
                /\ Parent(n) = entries_info[i].path /\ fs[n].kind = "symlink"
                /\ Parent(m) = entries_info[i].path /\ fs[m].kind = "file"

(***************************************************************************)
(* C9.  When listing the current directory fails, or a read below it       *)
(* fails during aggregation, the iteration ends in Exited with the error   *)
(* reported, no listing and no prompt; nothing happens after Exited.       *)
(***************************************************************************)
C9_FailureIsFatal ==
    [][/\ pc # "exited"
       /\ (pc = "list" /\ FaultBelow(current_dir)) =>
             /\ pc' = "exited"
             /\ out' \in ErrorMessages
             /\ entries_info' = <<>>
             /\ choice' = choice
             /\ current_dir' = current_dir
             /\ dir_stack' = dir_stack]_vars

\* the session ended on a metadata fault two levels below the listed
\* start directory
C9_Witness ==
    /\ pc = "exited"
    /\ out = "Error: " \o IoError
    /\ current_dir = Root
    /\ fault[1] = "metadata"
    /\ Parent(fault[2]) # Root

(***************************************************************************)
(* C10.  get_directory_size terminates on every finite tree, also when a   *)
(* symbolic link points back to an ancestor: only real directories are     *)
(* entered, each at most once, and a link is never entered and adds 0.     *)
(***************************************************************************)
C10_Terminates ==
    /\ [](/\ \A n \in Nodes : visits[n] <= 1
          /\ \A n \in Nodes : fs[n].kind # "dir" => visits[n] = 0
          /\ \A i \in 1..Len(agg_stack) : fs[agg_stack[i].path].kind = "dir"
          /\ (agg_pc = "done" /\ fault[1] \notin {"read_dir", "metadata"}) =>
                 (agg_result.ok /\ agg_result.val = RefSum(Root)))
    /\ <>(agg_pc = "done")

\* a finished aggregation of a tree with a link back to the start directory
\* inside a subdirectory
C10_Witness ==
    /\ agg_pc = "done"
    /\ agg_result.ok
    /\ \E n \in Nodes \ {Root} :
          /\ fs[n].kind = "symlink"
          /\ Parent(n) # Root
          /\ Resolve(n) = Root
          /\ visits[Parent(n)] = 1

====
